---- MODULE Spec2Model ----
(***************************************************************************)
(* The batch pipeline of dme_webapp.py: process_uploads flattens the       *)
(* uploaded files, splits them into operations of BATCH_SIZE images, runs  *)
(* extraction and document creation per image, uploads one CSV per         *)
(* operation and a master CSV, and returns the run summary.                *)
(*                                                                         *)
(* A file name is the record [stem, ext]: ext is the suffix that starts at *)
(* the last dot of the name ("" when the name has no dot).  Every suffix   *)
(* the code tests ('.zip', '.jpg', '.jpeg', '.png') starts with its only   *)
(* dot, so name.endswith(s) is exactly ext = s.                            *)
(***************************************************************************)
EXTENDS Integers, Sequences, FiniteSets, TLC

\* ------------------------------------------------------------------ bounds
MaxUploads == 2
MaxMembers == 2
MaxFaults == 1
MaxRuns == 2
MaxClock == 2
MaxImages == 120

\* ------------------------------------------------------- program constants
BATCH_SIZE == 50

\* datetime.now() has sub-second resolution; the clock of the model counts
\* half seconds.
TicksPerSecond == 2

Fields == {"device", "model", "serial", "manufacturer"}

\* ------------------------------------------------------------ python helpers
Min(a, b) == IF a < b THEN a ELSE b

\* seq[i:j] with 0 <= i, the slice being clipped to the sequence.
Slice(seq, i, j) == SubSeq(seq, i + 1, Min(j, Len(seq)))

\* list(range(start, stop, step)) for step > 0.
RECURSIVE Range(_, _, _)
Range(start, stop, step) ==
    IF start >= stop THEN <<>>
    ELSE <<start>> \o Range(start + step, stop, step)

\* str.lower() on the suffixes the model uses.
Lower(ext) ==
    CASE ext = ".JPG" -> ".jpg"
      [] ext = ".Jpg" -> ".jpg"
      [] ext = ".JPEG" -> ".jpeg"
      [] ext = ".PNG" -> ".png"
      [] ext = ".ZIP" -> ".zip"
      [] ext = ".TXT" -> ".txt"
      [] OTHER -> ext

\* file.name.endswith('.zip'): case-sensitive.
IsZipName(name) == name.ext = ".zip"

\* filename.lower().endswith(('.jpg', '.jpeg', '.png'))
IsImageName(name) == Lower(name.ext) \in {".jpg", ".jpeg", ".png"}

\* The images of one archive: the members of z.namelist(), in order, whose
\* name passes the extension filter.
RECURSIVE ZipImages(_)
ZipImages(members) ==
    IF members = <<>> THEN <<>>
    ELSE (IF IsImageName(Head(members))
          THEN <<[name |-> Head(members), bytes |-> "image"]>>
          ELSE <<>>) \o ZipImages(Tail(members))

\* zipfile.ZipFile raises BadZipFile on bytes that are no archive.
FlattenRaises(files) ==
    \E i \in 1..Len(files) : IsZipName(files[i].name) /\ files[i].content # "zip"

\* What one pass of the loop over uploaded_files appends to all_images.
FlattenFile(file) ==
    IF IsZipName(file.name)
    THEN ZipImages(file.members)
    ELSE <<[name |-> file.name, bytes |-> file.content]>>

\* all_images after the loop over uploaded_files: what the files append, in
\* upload order (the list is halved to keep the evaluation shallow).
RECURSIVE Flatten(_)
Flatten(files) ==
    IF files = <<>> THEN <<>>
    ELSE IF Len(files) = 1 THEN FlattenFile(files[1])
    ELSE LET half == Len(files) \div 2
         IN Flatten(SubSeq(files, 1, half)) \o Flatten(SubSeq(files, half + 1, Len(files)))

\* Mutant of NoImages: the empty check is missing.
NoImagesUnchecked(images) == FALSE

\* if not all_images: ... return None
NoImages(images) == images = <<>>

\* Mutant of Operations: the slice ends one element early.
OperationsShortSlice(images) ==
    LET starts == Range(0, Len(images), BATCH_SIZE)
    IN [k \in 1..Len(starts) |-> Slice(images, starts[k], starts[k] + BATCH_SIZE - 1)]

\* Mutant of Operations: the range runs to len(all_images) + 1.
OperationsLongRange(images) ==
    LET starts == Range(0, Len(images) + 1, BATCH_SIZE)
    IN [k \in 1..Len(starts) |-> Slice(images, starts[k], starts[k] + BATCH_SIZE)]

\* operations = [all_images[i:i + BATCH_SIZE] for i in range(0, len(all_images), BATCH_SIZE)]
Operations(images) ==
    LET starts == Range(0, Len(images), BATCH_SIZE)
    IN [k \in 1..Len(starts) |-> Slice(images, starts[k], starts[k] + BATCH_SIZE)]

\* Mutant of Strftime: the format stops at the minute ("%Y-%m-%d_%H-%M").
StrftimeMinutes(t) == t \div (60 * TicksPerSecond)

\* datetime.now().strftime("%Y-%m-%d_%H-%M-%S"): the time cut to the second.
Strftime(t) == t \div TicksPerSecond

\* f"DME_Upload_{session_timestamp}"
MasterFolderName(stamp) == [prefix |-> "DME_Upload_", stamp |-> stamp]

\* f"Operation_{op_idx:03d}"
OpFolderName(idx) == [prefix |-> "Operation_", index |-> idx]


\* ------------------------------------------------ extraction and documents
\* str(KeyError(f))
KeyErrorText(f) ==
    CASE f = "device" -> "'device'"
      [] f = "model" -> "'model'"
      [] f = "serial" -> "'serial'"
      [] OTHER -> "'manufacturer'"

\* What the outside world answers while one image is processed: whether
\* extract_equipment_data raises, the keys of the JSON object it returns
\* otherwise, and whether the Drive and Docs calls of create_equipment_doc
\* succeed ("ok"), fail at files().create ("create_fails") or fail at a later
\* documents() call ("edit_fails").
GoodAnswer == [raised |-> FALSE, keys |-> Fields, drive |-> "ok"]

FaultyAnswers ==
    {[raised |-> TRUE, keys |-> {}, drive |-> "ok"],
     [raised |-> FALSE, keys |-> Fields \ {"manufacturer"}, drive |-> "ok"],
     [raised |-> FALSE, keys |-> Fields, drive |-> "create_fails"],
     [raised |-> FALSE, keys |-> Fields, drive |-> "edit_fails"]}

\* extract_equipment_data(image['bytes']): Image.open raises on bytes that are
\* no image; the model call or json.loads may raise; otherwise the parsed
\* JSON object is returned as it is, whatever its keys.
ExtractError(image, answer, up) ==
    IF image.bytes # "image" THEN "UnidentifiedImageError"
    ELSE IF ~up \/ answer.raised THEN "extraction failed"
    ELSE ""

\* Mutant of ExtractData: keys the response lacks are filled in with "n/a".
ExtractDataFilled(image, answer) ==
    [f \in Fields |-> IF f \in answer.keys THEN image.name.stem ELSE "n/a"]

\* data = json.loads(text): the object as the model returned it, with the
\* keys it has (the values stand for what the label of the image shows).
ExtractData(image, answer) == [f \in answer.keys |-> image.name.stem]

\* create_equipment_doc(data, folder_id): the title reads data['device'] and
\* data['serial'] (line 222), files().create makes the document (line 230),
\* the content reads all four keys (lines 234-237), and the documents() calls
\* that follow are not guarded (lines 258-336).  created tells whether the
\* document exists in the folder when the function returns or raises.
CreateDoc(data, drive) ==
    IF "device" \notin DOMAIN data
    THEN [error |-> KeyErrorText("device"), created |-> FALSE]
    ELSE IF "serial" \notin DOMAIN data
    THEN [error |-> KeyErrorText("serial"), created |-> FALSE]
    ELSE IF drive = "create_fails"
    THEN [error |-> "HttpError files.create", created |-> FALSE]
    ELSE IF "model" \notin DOMAIN data
    THEN [error |-> KeyErrorText("model"), created |-> TRUE]
    ELSE IF "manufacturer" \notin DOMAIN data
    THEN [error |-> KeyErrorText("manufacturer"), created |-> TRUE]
    ELSE IF drive = "edit_fails"
    THEN [error |-> "HttpError documents.batchUpdate", created |-> TRUE]
    ELSE [error |-> "", created |-> TRUE]

\* f"https://docs.google.com/document/d/{doc_id}/edit"
DocUrl(doc_id) == [document |-> doc_id]

\* f"https://drive.google.com/drive/folders/{master_folder_id}"
FolderUrl(folder_id) == [folder |-> folder_id]

\* Mutant of SuccessResult: the operation is counted from 0, as enumerate
\* without its start argument counts.
SuccessResultZeroBasedOp(op, image, data, url) ==
    [operation |-> op - 1, image |-> image.name,
     device |-> data["device"], model |-> data["model"],
     serial |-> data["serial"], manufacturer |-> data["manufacturer"],
     doc_url |-> url, status |-> "SUCCESS"]

\* The result dict of a processed image (lines 448-457).
SuccessResult(op, image, data, url) ==
    [operation |-> op, image |-> image.name,
     device |-> data["device"], model |-> data["model"],
     serial |-> data["serial"], manufacturer |-> data["manufacturer"],
     doc_url |-> url, status |-> "SUCCESS"]

\* Mutant of FailedResult: the except branch tags the record "ERROR".
FailedResultOtherTag(op, image, e) ==
    [operation |-> op, image |-> image.name, error |-> e, status |-> "ERROR"]

\* The result dict of the except branch (lines 460-465).
FailedResult(op, image, e) ==
    [operation |-> op, image |-> image.name, error |-> e, status |-> "FAILED"]

\* Mutant of ItemFatal: no except clause, an error of either call leaves
\* process_uploads.
ItemFatalUncaught(error) == error # ""

\* except Exception as e: every error of the two calls is caught, none
\* leaves the loop.
ItemFatal(error) == FALSE

\* len([r for r in results if r['status'] == s])
CountStatus(results, s) ==
    Cardinality({i \in 1..Len(results) : results[i].status = s})

\* The dict process_uploads returns (lines 489-502).
Summary(images, ops, results, master_id) ==
    [total |-> Len(images),
     operations |-> Len(ops),
     success |-> CountStatus(results, "SUCCESS"),
     failed |-> CountStatus(results, "FAILED"),
     master_folder_url |-> FolderUrl(master_id),
     results |-> results]

\* Mutant of GlobalIdx: the groups are counted from 0 as enumerate counts
\* them from 1, so a whole group too many is added.
GlobalIdxGroupTooMany(op, img) == op * BATCH_SIZE + img

\* Mutant of GlobalIdx: the position within the group is counted from 0.
GlobalIdxZeroBased(op, img) == (op - 1) * BATCH_SIZE + img - 1

\* global_idx = (op_idx - 1) * BATCH_SIZE + img_idx
GlobalIdx(op, img) == (op - 1) * BATCH_SIZE + img

\* Mutant of OnStorageError: the failed call is made again.
OnStorageErrorRetry(at) == at

\* An exception of create_drive_folder or upload_csv_to_drive is not caught
\* in process_uploads: it ends the run.
OnStorageError(at) == "raised"

\* ------------------------------------------------------------------- state
VARIABLES
    queue,              \* the submissions the user still makes: [files, at]
    extractor_up,       \* FALSE: every extraction call fails (service down)
    pc,                 \* where process_uploads stands
    uploaded_files,     \* the argument of process_uploads
    all_images,         \* the flattened list
    start_time,         \* datetime.now() as read at line 402
    session_timestamp,  \* the formatted start time
    master_folder_id,
    operations,
    op_idx,
    img_idx,
    global_idx,
    op_folder_id,
    operation_results,
    all_results,
    ret,                \* <<>>: nothing returned (None); <<summary>> otherwise
    folders,            \* Drive: the folders created, a folder's id is its index
    docs,               \* Drive: the documents created
    csvs,               \* Drive: the CSV files uploaded
    started,            \* per master folder created: [at: the run's start time, folder]
    storage_calls,      \* calls of create_drive_folder and upload_csv_to_drive
    faults              \* external calls that failed so far (not counting an outage)

vars == <<queue, extractor_up, pc, uploaded_files, all_images, start_time,
          session_timestamp,
          master_folder_id, operations, op_idx, img_idx, global_idx, op_folder_id,
          operation_results, all_results, ret, folders, docs, csvs, started,
          storage_calls, faults>>

run_locals == <<all_images, start_time, session_timestamp, master_folder_id, operations, op_idx,
                img_idx, global_idx, op_folder_id, operation_results, all_results>>

drive == <<folders, docs, csvs>>

\* BASE_FOLDER_ID, the parent of every master folder.
BASE_FOLDER_ID == 0

\* ------------------------------------------------------------------ inputs
Name(s, e) == [stem |-> s, ext |-> e]
Img(s, e) == [name |-> Name(s, e), content |-> "image", members |-> <<>>]
Zip(s, e, m) == [name |-> Name(s, e), content |-> "zip", members |-> m]

\* An archive of n photos.
Photos(n) == [i \in 1..n |-> Name(i, ".jpg")]

SmallEntries ==
    {Img(101, ".jpg"),
     Zip(102, ".zip", <<Name(1, ".JPG"), Name(2, ".txt")>>),
     Zip(103, ".zip", <<Name(1, ".txt")>>),
     Zip(104, ".ZIP", <<Name(1, ".jpg")>>),
     [name |-> Name(105, ".zip"), content |-> "image", members |-> <<>>]}

RECURSIVE SeqsUpTo(_, _)
SeqsUpTo(S, n) ==
    IF n = 0 THEN {<<>>}
    ELSE LET shorter == SeqsUpTo(S, n - 1)
         IN shorter \cup {Append(q, x) : q \in shorter, x \in S}

SmallInputs == SeqsUpTo(SmallEntries, MaxUploads) \ {<<>>}

\* An archive that fills one operation, followed by one more image: the
\* shortest upload that makes two operations.
BigInputs == {<<Zip(102, ".zip", Photos(BATCH_SIZE)), Img(101, ".jpeg")>>}

RepeatInputs == {<<Img(101, ".jpg")>>, <<Zip(103, ".zip", <<Name(1, ".txt")>>)>>}

\* A session of one run, or of several short runs at any times.
Sessions ==
    {<<[files |-> f, at |-> 0]>> : f \in SmallInputs \cup BigInputs}
    \cup (SeqsUpTo([files : RepeatInputs, at : 0..MaxClock], MaxRuns)
          \ SeqsUpTo([files : RepeatInputs, at : 0..MaxClock], 1))

Init ==
    /\ queue \in Sessions
    /\ extractor_up \in BOOLEAN
    /\ pc = "idle"
    /\ uploaded_files = <<>>
    /\ all_images = <<>>
    /\ start_time = 0
    /\ session_timestamp = 0
    /\ master_folder_id = 0
    /\ operations = <<>>
    /\ op_idx = 0
    /\ img_idx = 0
    /\ global_idx = 0
    /\ op_folder_id = 0
    /\ operation_results = <<>>
    /\ all_results = <<>>
    /\ ret = <<>>
    /\ folders = <<>>
    /\ docs = <<>>
    /\ csvs = <<>>
    /\ started = <<>>
    /\ storage_calls = 0
    /\ faults = 0

Ended == {"done", "aborted", "raised"}
Running == {"create_master", "op_folder", "image", "op_csv", "master_csv"}

\* ----------------------------------------------------------------- actions
\* main() calls process_uploads(uploaded_files) (line 603); lines 378-403:
\* the files are flattened, an empty list ends the run with None, and the
\* master folder is named after the current time.
StartRun ==
    /\ pc \in Ended \cup {"idle"}
    /\ queue # <<>>
    /\ LET sub == Head(queue)
           images == Flatten(sub.files)
       IN /\ queue' = Tail(queue)
          /\ uploaded_files' = sub.files
          /\ ret' = <<>>
          /\ master_folder_id' = 0
          /\ operations' = <<>>
          /\ op_idx' = 0
          /\ img_idx' = 0
          /\ global_idx' = 0
          /\ op_folder_id' = 0
          /\ operation_results' = <<>>
          /\ all_results' = <<>>
          /\ IF FlattenRaises(sub.files)
             THEN /\ pc' = "raised"
                  /\ all_images' = <<>>
                  /\ start_time' = 0
                  /\ session_timestamp' = 0
             ELSE IF NoImages(images)
             THEN /\ pc' = "aborted"
                  /\ all_images' = images
                  /\ start_time' = 0
                  /\ session_timestamp' = 0
             ELSE /\ pc' = "create_master"
                  /\ all_images' = images
                  /\ start_time' = sub.at
                  /\ session_timestamp' = Strftime(sub.at)
    /\ UNCHANGED <<extractor_up, folders, docs, csvs, started, storage_calls, faults>>

\* The next pc once the master folder exists: the for loop over operations
\* (line 423), or the code after it when there is no operation.
AfterMaster(ops) == IF Len(ops) = 0 THEN "master_csv" ELSE "op_folder"

\* Lines 405-421: create_drive_folder(master_folder_name, BASE_FOLDER_ID),
\* then the split into operations.
CreateMaster ==
    /\ pc = "create_master"
    /\ storage_calls' = storage_calls + 1
    /\ \/ /\ folders' = Append(folders, [name |-> MasterFolderName(session_timestamp),
                                         parent |-> BASE_FOLDER_ID])
          /\ master_folder_id' = Len(folders) + 1
          /\ operations' = Operations(all_images)
          /\ all_results' = <<>>
          /\ op_idx' = 1
          /\ pc' = AfterMaster(Operations(all_images))
          /\ started' = Append(started, [at |-> start_time, folder |-> Len(folders) + 1])
          /\ UNCHANGED <<all_images, start_time, session_timestamp, img_idx,
                         global_idx, op_folder_id, operation_results>>
          /\ UNCHANGED faults
       \/ /\ faults < MaxFaults
          /\ faults' = faults + 1
          /\ pc' = OnStorageError(pc)
          /\ UNCHANGED <<run_locals, folders, started>>
    /\ UNCHANGED <<queue, extractor_up, uploaded_files, ret, docs, csvs>>

\* Lines 423-434: create_drive_folder(op_folder_name, master_folder_id) for
\* operation op_idx, then the empty operation_results.
CreateOpFolder ==
    /\ pc = "op_folder"
    /\ storage_calls' = storage_calls + 1
    /\ \/ /\ folders' = Append(folders, [name |-> OpFolderName(op_idx),
                                         parent |-> master_folder_id])
          /\ op_folder_id' = Len(folders) + 1
          /\ operation_results' = <<>>
          /\ img_idx' = 1
          /\ pc' = "image"
          /\ UNCHANGED <<all_images, start_time, session_timestamp, master_folder_id,
                         operations, op_idx, global_idx, all_results>>
          /\ UNCHANGED faults
       \/ /\ faults < MaxFaults
          /\ faults' = faults + 1
          /\ pc' = OnStorageError(pc)
          /\ UNCHANGED <<run_locals, folders>>
    /\ UNCHANGED <<queue, extractor_up, uploaded_files, ret, docs, csvs, started>>

\* Every answer the outside world can give: the extraction raises or returns
\* a JSON object with any of the four keys, and the Drive and Docs calls
\* succeed or fail.
AllAnswers ==
    [raised : BOOLEAN, keys : SUBSET Fields, drive : {"ok", "create_fails", "edit_fails"}]

\* The answers the outside world may give for the next image: a faulty one
\* only while fewer than MaxFaults calls have failed, and only where it makes
\* a difference (the extraction of readable bytes by a running service).
Answers(image, up, n) ==
    IF n < MaxFaults /\ up /\ image.bytes = "image"
    THEN {GoodAnswer} \cup FaultyAnswers
    ELSE {GoodAnswer}

\* The error process_uploads catches for one image ("" when both calls
\* return), and whether the document was created on the way.
ItemAttempt(image, answer, up) ==
    LET e == ExtractError(image, answer, up)
    IN IF e # "" THEN [error |-> e, created |-> FALSE]
       ELSE CreateDoc(ExtractData(image, answer), answer.drive)

\* The result appended for one image (lines 441-465).
ItemResult(op, image, answer, attempt, doc_id) ==
    IF attempt.error = ""
    THEN SuccessResult(op, image, ExtractData(image, answer), DocUrl(doc_id))
    ELSE FailedResult(op, image, attempt.error)

\* Mutant of LastImage: the loop does not end with the last image.
LastImageNever(img, n) == FALSE

\* for img_idx, image in enumerate(operation_images, 1): the loop ends with
\* the last image of the operation.
LastImage(img, n) == img = n

\* Lines 436-475, one iteration of the inner loop: extraction, document
\* creation, the result appended to both lists; the loop then goes to the
\* next image, or leaves for the operation's CSV after the last one.
ImageStep(answers) ==
    /\ \E answer \in answers :
         LET image == operations[op_idx][img_idx]
             attempt == ItemAttempt(image, answer, extractor_up)
             result == ItemResult(op_idx, image, answer, attempt, Len(docs) + 1)
         IN /\ global_idx' = GlobalIdx(op_idx, img_idx)
            /\ faults' = IF answer = GoodAnswer THEN faults ELSE faults + 1
            /\ docs' = IF attempt.created
                       THEN Append(docs, [title |-> <<image.name.stem, image.name.stem>>,
                                          parent |-> op_folder_id])
                       ELSE docs
            /\ IF ItemFatal(attempt.error) /\ attempt.error # ""
               THEN /\ pc' = "raised"
                    /\ UNCHANGED <<operation_results, all_results, img_idx>>
               ELSE /\ operation_results' = Append(operation_results, result)
                    /\ all_results' = Append(all_results, result)
                    /\ IF LastImage(img_idx, Len(operations[op_idx]))
                       THEN pc' = "op_csv" /\ img_idx' = img_idx
                       ELSE pc' = "image" /\ img_idx' = img_idx + 1
    /\ UNCHANGED <<queue, extractor_up, uploaded_files, all_images, start_time,
                   session_timestamp, master_folder_id, operations, op_idx,
                   op_folder_id, ret, folders, csvs, started, storage_calls>>

\* The inner loop (line 436) while an image of the operation is left.
ProcessImage ==
    /\ pc = "image"
    /\ img_idx <= Len(operations[op_idx])
    /\ ImageStep(Answers(operations[op_idx][img_idx], extractor_up, faults))

\* Mutant of UploadOpCsv: lines 477-480 stand after the outer loop, so only
\* the last operation's CSV is uploaded; the earlier operations go on to the
\* next folder without one.
UploadOpCsvAfterLoop ==
    /\ pc = "op_csv"
    /\ IF op_idx = Len(operations)
       THEN /\ storage_calls' = storage_calls + 1
            /\ csvs' = Append(csvs, [filename |-> "batch_results.csv",
                                     parent |-> op_folder_id,
                                     rows |-> operation_results])
            /\ pc' = "master_csv"
            /\ op_idx' = op_idx
       ELSE /\ pc' = "op_folder"
            /\ op_idx' = op_idx + 1
            /\ UNCHANGED <<csvs, storage_calls>>
    /\ UNCHANGED <<queue, extractor_up, uploaded_files, all_images, start_time,
                   session_timestamp, master_folder_id, operations, img_idx, global_idx,
                   op_folder_id, operation_results, all_results, folders, docs, started,
                   ret, faults>>

\* Lines 477-482: upload_csv_to_drive(op_csv, "batch_results.csv",
\* op_folder_id); the outer loop then goes to the next operation, or leaves
\* for the master CSV after the last one.
UploadOpCsv ==
    /\ pc = "op_csv"
    /\ storage_calls' = storage_calls + 1
    /\ \/ /\ csvs' = Append(csvs, [filename |-> "batch_results.csv",
                                   parent |-> op_folder_id,
                                   rows |-> operation_results])
          /\ IF op_idx = Len(operations)
             THEN pc' = "master_csv" /\ op_idx' = op_idx
             ELSE pc' = "op_folder" /\ op_idx' = op_idx + 1
          /\ UNCHANGED <<ret, faults>>
       \/ /\ faults < MaxFaults
          /\ faults' = faults + 1
          /\ pc' = OnStorageError(pc)
          /\ UNCHANGED <<csvs, op_idx, ret>>
    /\ UNCHANGED <<queue, extractor_up, uploaded_files, all_images, start_time,
                   session_timestamp, master_folder_id, operations, img_idx, global_idx,
                   op_folder_id, operation_results, all_results, folders, docs, started>>

\* Lines 484-502: upload_csv_to_drive(master_csv, "master_results.csv",
\* master_folder_id), then the summary is returned.
UploadMasterCsv ==
    /\ pc = "master_csv"
    /\ storage_calls' = storage_calls + 1
    /\ \/ /\ csvs' = Append(csvs, [filename |-> "master_results.csv",
                                   parent |-> master_folder_id,
                                   rows |-> all_results])
          /\ ret' = <<Summary(all_images, operations, all_results, master_folder_id)>>
          /\ pc' = "done"
          /\ UNCHANGED faults
       \/ /\ faults < MaxFaults
          /\ faults' = faults + 1
          /\ pc' = OnStorageError(pc)
          /\ UNCHANGED <<csvs, ret>>
    /\ UNCHANGED <<queue, extractor_up, uploaded_files, run_locals, folders, docs, started>>

RunStep == CreateMaster \/ CreateOpFolder \/ ProcessImage \/ UploadOpCsv \/ UploadMasterCsv

Next == StartRun \/ RunStep

Spec == Init /\ [][Next]_vars

\* Every external call returns (or raises): a started run keeps taking steps.
FairSpec == Spec /\ WF_vars(RunStep)

\* ------------------------------------------------- the Batcher on its own
\* The values the variables have before process_uploads is called.
Idle ==
    /\ queue = <<>>
    /\ extractor_up = TRUE
    /\ uploaded_files = <<>>
    /\ start_time = 0
    /\ session_timestamp = 0
    /\ master_folder_id = 0
    /\ op_idx = 0
    /\ img_idx = 0
    /\ global_idx = 0
    /\ op_folder_id = 0
    /\ operation_results = <<>>
    /\ all_results = <<>>
    /\ ret = <<>>
    /\ folders = <<>>
    /\ docs = <<>>
    /\ csvs = <<>>
    /\ started = <<>>
    /\ storage_calls = 0
    /\ faults = 0

\* A flattened list of n images with different names.
ImageList(n) == [i \in 1..n |-> [name |-> Name(i, ".jpg"), bytes |-> "image"]]

InitBatcher ==
    /\ Idle
    /\ pc = "split"
    /\ all_images \in {ImageList(n) : n \in 1..MaxImages}
    /\ operations = <<>>

\* Lines 408-412 applied to all_images.
Split ==
    /\ pc = "split"
    /\ operations' = Operations(all_images)
    /\ pc' = "batched"
    /\ UNCHANGED <<queue, extractor_up, uploaded_files, all_images, start_time,
                   session_timestamp, master_folder_id, op_idx, img_idx, global_idx,
                   op_folder_id, operation_results, all_results, ret, folders, docs,
                   csvs, started, storage_calls, faults>>

SpecBatcher == InitBatcher /\ [][Split]_vars

\* ------------------------------------------------ the Flattener on its own
MemberExts == {".jpg", ".JPEG", ".txt"}

\* The listings of at most n members, the i-th member having stem i.
RECURSIVE Listings(_)
Listings(n) ==
    IF n = 0 THEN {<<>>}
    ELSE LET shorter == Listings(n - 1)
         IN shorter \cup {Append(m, Name(Len(m) + 1, e)) :
                            m \in {x \in shorter : Len(x) = n - 1}, e \in MemberExts}

FlattenEntries ==
    {Zip(103, ".zip", m) : m \in Listings(MaxMembers)}
    \cup {Img(101, ".jpg"), Img(102, ".PNG"),
          Zip(104, ".ZIP", <<Name(1, ".jpg")>>),
          Zip(105, ".zip", <<Name(1, ".png"), Name(2, ".Jpg"), Name(3, ".zip"),
                             Name(4, "")>>),
          [name |-> Name(106, ".zip"), content |-> "image", members |-> <<>>]}

FlattenInputs == SeqsUpTo(FlattenEntries, MaxUploads) \ {<<>>}

InitFlatten ==
    /\ Idle
    /\ pc = "flatten"
    /\ all_images = <<>>
    /\ operations = <<>>

\* Lines 378-397 applied to any upload.
FlattenStep ==
    /\ pc = "flatten"
    /\ \E files \in FlattenInputs :
         /\ uploaded_files' = files
         /\ all_images' = IF FlattenRaises(files) THEN <<>> ELSE Flatten(files)
         /\ pc' = IF FlattenRaises(files) THEN "raised"
                  ELSE IF NoImages(Flatten(files)) THEN "aborted"
                  ELSE "flattened"
    /\ UNCHANGED <<queue, extractor_up, start_time, session_timestamp,
                   master_folder_id, operations, op_idx, img_idx, global_idx,
                   op_folder_id, operation_results, all_results, ret, folders, docs,
                   csvs, started, storage_calls, faults>>

SpecFlatten == InitFlatten /\ [][FlattenStep]_vars

\* ------------------------------------------- long uploads without archives
\* A file that carries an image suffix and holds no image.
Unreadable(s, e) == [name |-> Name(s, e), content |-> "text", members |-> <<>>]

\* n uploaded image files, and n uploaded files of which every third one
\* holds no image.
ImageUploads(n) == [i \in 1..n |-> Img(i, ".jpg")]
MixedUploads(n) == [i \in 1..n |-> IF i % 3 = 0 THEN Unreadable(i, ".png") ELSE Img(i, ".jpg")]

LongInputs == {ImageUploads(n) : n \in 1..MaxImages} \cup {MixedUploads(n) : n \in 1..MaxImages}

\* One run over an upload of up to MaxImages files, in a session in which
\* the external calls that fail have failed before: no call fails during
\* the run, except every extraction while the service is down.
InitLong ==
    /\ queue \in {<<[files |-> f, at |-> 0]>> : f \in LongInputs}
    /\ extractor_up \in BOOLEAN
    /\ pc = "idle"
    /\ uploaded_files = <<>>
    /\ all_images = <<>>
    /\ start_time = 0
    /\ session_timestamp = 0
    /\ master_folder_id = 0
    /\ operations = <<>>
    /\ op_idx = 0
    /\ img_idx = 0
    /\ global_idx = 0
    /\ op_folder_id = 0
    /\ operation_results = <<>>
    /\ all_results = <<>>
    /\ ret = <<>>
    /\ folders = <<>>
    /\ docs = <<>>
    /\ csvs = <<>>
    /\ started = <<>>
    /\ storage_calls = 0
    /\ faults = MaxFaults

SpecLong == InitLong /\ [][Next]_vars

\* ------------------------------------------ short runs under any answer
\* The inner loop when the outside world may give any answer at all.
ProcessImageAnyAnswer ==
    /\ pc = "image"
    /\ img_idx <= Len(operations[op_idx])
    /\ ImageStep(AllAnswers)

ShortInputs == SeqsUpTo({Img(101, ".jpg"), Unreadable(102, ".png")}, MaxUploads) \ {<<>>}

\* One run over a short upload.
InitAnyAnswer ==
    /\ queue \in {<<[files |-> f, at |-> 0]>> : f \in ShortInputs}
    /\ extractor_up \in BOOLEAN
    /\ pc = "idle"
    /\ uploaded_files = <<>>
    /\ all_images = <<>>
    /\ start_time = 0
    /\ session_timestamp = 0
    /\ master_folder_id = 0
    /\ operations = <<>>
    /\ op_idx = 0
    /\ img_idx = 0
    /\ global_idx = 0
    /\ op_folder_id = 0
    /\ operation_results = <<>>
    /\ all_results = <<>>
    /\ ret = <<>>
    /\ folders = <<>>
    /\ docs = <<>>
    /\ csvs = <<>>
    /\ started = <<>>
    /\ storage_calls = 0
    /\ faults = 0

NextAnyAnswer ==
    \/ StartRun
    \/ CreateMaster
    \/ CreateOpFolder
    \/ ProcessImageAnyAnswer
    \/ UploadOpCsv
    \/ UploadMasterCsv

SpecAnyAnswer == InitAnyAnswer /\ [][NextAnyAnswer]_vars

\* ------------------------------------------------------------------ claims
\* C1: whenever process_uploads returns a summary, success + failed = total,
\* and total is the length of the flattened image list.
C1_SummaryAddsUp ==
    \A k \in 1..Len(ret) :
        /\ ret[k].success + ret[k].failed = ret[k].total
        /\ ret[k].total = Len(all_images)

\* A summary of a run over two operations with both kinds of result.
C1_Witness ==
    /\ pc = "done"
    /\ Len(ret) = 1
    /\ ret[1].total > BATCH_SIZE
    /\ ret[1].failed >= 1
    /\ ret[1].success >= 1

\* A step of the image loop appends exactly one result, for the image at
\* hand, to both lists, FAILED when a call failed, and stays in the loops.
C2_StepRecordsImage ==
    pc = "image" =>
        /\ pc' \in {"image", "op_csv"}
        /\ Len(operation_results') = Len(operation_results) + 1
        /\ Len(all_results') = Len(all_results) + 1
        /\ all_results'[Len(all_results')] = operation_results'[Len(operation_results')]
        /\ all_results'[Len(all_results')].image = operations[op_idx][img_idx].name
        /\ (faults' # faults \/ ~extractor_up
              => all_results'[Len(all_results')].status = "FAILED")
        /\ (pc' = "image" => img_idx' = img_idx + 1 /\ op_idx' = op_idx)

\* The folders of the run at hand are those created after its master folder.
OfThisRun(f) == master_folder_id > 0 /\ f > master_folder_id

\* An operation's result list, once the operation is through, and the CSV
\* uploaded from it are as long as the operation; so is the master list.
C2_GroupsComplete ==
    /\ pc = "op_csv" => Len(operation_results) = Len(operations[op_idx])
    /\ \A c \in 1..Len(csvs) :
         csvs[c].filename = "batch_results.csv" /\ OfThisRun(csvs[c].parent) =>
             Len(csvs[c].rows) = Len(operations[folders[csvs[c].parent].name.index])
    /\ pc \in {"master_csv", "done"} => Len(all_results) = Len(all_images)

\* C2: an error of extraction or of document creation for one image becomes
\* a FAILED result for that image and never stops the run: the later images
\* of the group and of the later groups are still processed, and each
\* group's result list has exactly as many entries as the group has images.
C2_FailureIsolated == [](C2_GroupsComplete) /\ [][C2_StepRecordsImage]_vars

\* A finished run of two operations whose first operation holds a FAILED
\* result that is followed by SUCCESS results in both operations.
C2_Witness ==
    /\ pc = "done"
    /\ Len(all_results) = BATCH_SIZE + 1
    /\ \E i \in 1..(BATCH_SIZE - 1) :
         /\ all_results[i].status = "FAILED"
         /\ all_results[i + 1].status = "SUCCESS"
         /\ all_results[BATCH_SIZE + 1].status = "SUCCESS"

\* The groups' item lists put one after the other, in group order.
RECURSIVE Concat(_)
Concat(groups) ==
    IF groups = <<>> THEN <<>> ELSE Head(groups) \o Concat(Tail(groups))

\* C3: the groups, concatenated in group order, are the flattened list: no
\* image is lost, duplicated or moved.
C3_PartitionLaw == pc = "batched" => Concat(operations) = all_images

\* A list that is split into three groups, the last one shorter.
C3_Witness ==
    /\ pc = "batched"
    /\ Len(operations) = 3
    /\ Len(all_images) = 2 * BATCH_SIZE + 20

\* The least k with k * d >= n.
CeilDiv(n, d) == CHOOSE k \in 0..n : k * d >= n /\ \A j \in 0..(k - 1) : j * d < n

\* C4: N >= 1 images make ceil(N / 50) groups; every group but the last has
\* exactly 50 items, the last has N mod 50 items, or 50 when 50 divides N;
\* no group is empty.
C4_GroupSizes ==
    pc = "batched" =>
        LET n == Len(all_images)
            g == Len(operations)
        IN /\ BATCH_SIZE = 50
           /\ g = CeilDiv(n, 50)
           /\ \A k \in 1..(g - 1) : Len(operations[k]) = 50
           /\ Len(operations[g]) = (IF n % 50 = 0 THEN 50 ELSE n % 50)
           /\ \A k \in 1..g : Len(operations[k]) >= 1

\* A list whose length is a multiple of 50: the last group is full.
C4_Witness ==
    /\ pc = "batched"
    /\ Len(all_images) = 100
    /\ Len(operations) = 2
    /\ Len(operations[2]) = 50

\* A step that calls process_uploads: it takes the next submission.
RunStarts == queue' # queue

\* The step that starts a run on an upload without images ends it: nothing is
\* returned, no storage call is made, nothing is created; an aborted run
\* takes no further step.
C5_StepAbortsEmpty ==
    /\ (RunStarts /\ pc' # "raised" /\ all_images' = <<>>) =>
          /\ pc' = "aborted"
          /\ ret' = <<>>
          /\ UNCHANGED <<folders, docs, csvs, storage_calls>>
    /\ pc = "aborted" => RunStarts

\* C5: a run whose flattened list is empty aborts with "no images found": it
\* returns no summary, and no folder (master or operation) and no CSV is
\* created.
C5_EmptyRunAborts ==
    [](pc = "aborted" => ret = <<>> /\ all_images = <<>>) /\ [][C5_StepAbortsEmpty]_vars

\* An aborted run on an archive that holds a .txt member only.
C5_Witness ==
    /\ pc = "aborted"
    /\ Len(uploaded_files) = 1
    /\ uploaded_files[1].content = "zip"
    /\ uploaded_files[1].name.ext = ".zip"
    /\ Len(uploaded_files[1].members) = 1
    /\ uploaded_files[1].members[1].ext = ".txt"

\* The flattened list as the specification words it: an entry that is an
\* archive gives its members whose name ends, in any case, in .jpg, .jpeg or
\* .png, in listing order; any other entry passes through.
RECURSIVE ImageMembers(_)
ImageMembers(members) ==
    IF members = <<>> THEN <<>>
    ELSE (IF Head(members).ext \in {".jpg", ".JPG", ".Jpg", ".jpeg", ".JPEG", ".png", ".PNG"}
          THEN <<[name |-> Head(members), bytes |-> "image"]>>
          ELSE <<>>) \o ImageMembers(Tail(members))

\* The upload with every archive replaced in place by its image members.
RECURSIVE Expanded(_)
Expanded(files) ==
    IF files = <<>> THEN <<>>
    ELSE (IF Head(files).content = "zip"
          THEN ImageMembers(Head(files).members)
          ELSE <<[name |-> Head(files).name, bytes |-> Head(files).content]>>)
         \o Expanded(Tail(files))

\* C6: the flattened list is the upload with every archive entry replaced in
\* place by its image members and every other entry passed through.
C6_FlattenExpandsArchives ==
    pc \in {"flattened", "aborted"} => all_images = Expanded(uploaded_files)

\* A storage call that created nothing has failed: the run is raised by it
\* and returns nothing; a raised run takes no further step, only a new call
\* of process_uploads follows.
C7_StepStorageFatal ==
    /\ (storage_calls' = storage_calls + 1 /\ folders' = folders /\ csvs' = csvs)
          => pc' = "raised" /\ ret' = <<>>
    /\ pc = "raised" => RunStarts

\* C7: a failed create_drive_folder or upload_csv_to_drive call (master
\* folder, operation folder, operation CSV, master CSV) is fatal: it leaves
\* process_uploads, no summary is returned, the call is not made again and
\* the run performs no further image, folder or CSV operation.
C7_StorageErrorFatal ==
    [](pc = "raised" => ret = <<>>) /\ [][C7_StepStorageFatal]_vars

\* A run of two operations that ended on a failed upload of a CSV.
C7_Witness ==
    /\ pc = "raised"
    /\ Len(all_results) = BATCH_SIZE + 1
    /\ storage_calls = Len(folders) + Len(csvs) + 1

\* Once the images are known, a run is raised by a failed storage call only.
C8_StepRaisesOnStorageOnly ==
    (pc \in Running /\ pc' = "raised") =>
        (storage_calls' = storage_calls + 1 /\ folders' = folders /\ csvs' = csvs)

\* A run that is done has returned a summary with both counts.
C8_SummaryReturned ==
    pc = "done" =>
        /\ Len(ret) = 1
        /\ ret[1].success \in 0..Len(all_images)
        /\ ret[1].failed \in 0..Len(all_images)
        /\ Len(ret[1].results) = Len(all_images)

\* C8: a run that has at least one image ends, with the summary or with a
\* fatal error; a fatal error comes from a failed storage call only, so a
\* run that meets none returns its summary, with the success and failure
\* counts, also when every single item failed.
C8_RunTerminates ==
    /\ (pc \in Running) ~> (pc \in {"done", "raised"})
    /\ [](C8_SummaryReturned)
    /\ [][C8_StepRaisesOnStorageOnly]_vars

\* A run over two operations in which every single item failed and which
\* returned its summary.
C8_Witness ==
    /\ pc = "done"
    /\ Len(ret) = 1
    /\ ret[1].total = BATCH_SIZE + 1
    /\ ret[1].success = 0
    /\ ret[1].failed = BATCH_SIZE + 1

\* The name of the master folder that the i-th entry of started stands for.
MasterName(i) == folders[started[i].folder].name

\* C9 as stated: any two runs of the process get different master folder
\* names.
C9_NamesUnique ==
    \A i, j \in 1..Len(started) : i # j => MasterName(i) # MasterName(j)

\* C9 as amended: the master folder is named after the second in which the
\* run read the clock, so two runs get different names exactly when they
\* read the clock in different seconds.
C9_NamesFollowSeconds ==
    \A i, j \in 1..Len(started) :
        /\ MasterName(i).prefix = "DME_Upload_"
        /\ (MasterName(i) = MasterName(j)
              <=> started[i].at \div TicksPerSecond = started[j].at \div TicksPerSecond)

\* Two runs that created their master folders after reading the clock in
\* different seconds.
C9_Witness ==
    /\ Len(started) = 2
    /\ started[1].at \div TicksPerSecond # started[2].at \div TicksPerSecond
    /\ MasterName(1) # MasterName(2)

\* The operation folders that a batch_results.csv was uploaded to.
DoneOpFolders == {csvs[c].parent : c \in {x \in 1..Len(csvs) : csvs[x].filename = "batch_results.csv"}}

\* The number of documents in folder f.
DocsIn(f) == Cardinality({d \in 1..Len(docs) : docs[d].parent = f})

\* The CSV files in folder f.
CsvsIn(f) == {c \in 1..Len(csvs) : csvs[c].parent = f}

\* C10: a processed group has one folder, in it exactly as many documents as
\* the group has SUCCESS results (none for a FAILED one), and exactly one
\* CSV, named batch_results.csv.
C10_GroupArtifacts ==
    \A f \in DoneOpFolders :
        /\ folders[f].name.prefix = "Operation_"
        /\ Cardinality(CsvsIn(f)) = 1
        /\ \A c \in CsvsIn(f) :
             /\ csvs[c].filename = "batch_results.csv"
             /\ DocsIn(f) = CountStatus(csvs[c].rows, "SUCCESS")

\* The last file uploaded so far is the batch_results.csv of folder f.
LastCsvIsBatchOf(f) ==
    /\ csvs # <<>>
    /\ csvs[Len(csvs)].filename = "batch_results.csv"
    /\ csvs[Len(csvs)].parent = f

\* The folders of the run at hand follow its master folder in creation
\* order as Operation_1, Operation_2, ...; while an image is processed the
\* folder of its operation exists and is the last one created.
C11_FoldersAscend ==
    /\ master_folder_id > 0 =>
         \A f \in (master_folder_id + 1)..Len(folders) :
             /\ folders[f].name = OpFolderName(f - master_folder_id)
             /\ folders[f].parent = master_folder_id
    /\ pc \in {"image", "op_csv"} =>
         /\ op_folder_id = Len(folders)
         /\ op_folder_id = master_folder_id + op_idx
         /\ op_idx \in 1..Len(operations)

\* The order of the steps of a run: the operation index only goes up by one,
\* in the step that uploads the operation's CSV; an operation's folder is
\* created before any of its images has a result and after the CSV of the
\* operation before it; an image step takes the next image of the operation
\* at hand, creates a document only after a successful extraction, in that
\* operation's folder, and finishes with the image's result; the master CSV
\* is uploaded after the CSV of the last operation.
C11_StepInOrder ==
    /\ (op_idx' # op_idx /\ ~RunStarts /\ pc # "create_master") =>
          /\ pc = "op_csv"
          /\ op_idx' = op_idx + 1
          /\ Len(csvs') = Len(csvs) + 1
          /\ csvs'[Len(csvs')].filename = "batch_results.csv"
          /\ csvs'[Len(csvs')].parent = op_folder_id
    /\ (pc = "create_master" /\ pc' # "raised") => op_idx' = 1
    /\ (pc = "op_folder" /\ folders' # folders) =>
          /\ folders'[Len(folders')].name = OpFolderName(op_idx)
          /\ Len(all_results) = (op_idx - 1) * BATCH_SIZE
          /\ DocsIn(Len(folders')) = 0
          /\ op_idx > 1 =>
               /\ LastCsvIsBatchOf(op_folder_id)
               /\ folders[op_folder_id].name = OpFolderName(op_idx - 1)
    /\ pc = "image" =>
          /\ img_idx = Len(operation_results) + 1
          /\ Len(operation_results') = img_idx
          /\ operation_results'[img_idx].image = operations[op_idx][img_idx].name
          /\ ((~extractor_up \/ operations[op_idx][img_idx].bytes # "image")
                => docs' = docs)
          /\ docs' # docs =>
               /\ Len(docs') = Len(docs) + 1
               /\ docs'[Len(docs')].parent = op_folder_id
               /\ docs'[Len(docs')].title[1] = operations[op_idx][img_idx].name.stem
    /\ docs' # docs => pc = "image"
    /\ (\/ (Len(csvs') > Len(csvs) /\ csvs'[Len(csvs')].filename = "master_results.csv")
        \/ pc' = "done") =>
          /\ pc = "master_csv"
          /\ op_idx = Len(operations)
          /\ LastCsvIsBatchOf(master_folder_id + Len(operations))
          /\ Len(all_results) = Len(all_images)

\* C11: execution is sequential and ordered: the groups run in ascending
\* index order 1..N; within a group an image's extraction precedes its
\* document creation and both finish before the next image starts; a group's
\* folder is created before any of its images is processed and its
\* batch_results.csv is uploaded before the next group's folder is created;
\* master_results.csv is uploaded only after the last group's CSV.
C11_SequentialOrder == [](C11_FoldersAscend) /\ [][C11_StepInOrder]_vars

\* A finished run of two operations: three folders, two operation CSVs and
\* the master CSV, in this order.
C11_Witness ==
    /\ pc = "done"
    /\ Len(operations) = 2
    /\ Len(folders) = 3
    /\ Len(csvs) = 3
    /\ csvs[1].parent = 2
    /\ csvs[2].parent = 3
    /\ csvs[3].filename = "master_results.csv"

\* The rows of the batch_results.csv files of the run at hand, in upload
\* order: the result lists of the groups that are through.
RECURSIVE GroupRows(_)
GroupRows(cs) ==
    IF cs = <<>> THEN <<>>
    ELSE (IF Head(cs).filename = "batch_results.csv" /\ OfThisRun(Head(cs).parent)
          THEN Head(cs).rows ELSE <<>>) \o GroupRows(Tail(cs))

\* The number of images in the groups before group g.
ImagesBefore(g) == Len(Concat(SubSeq(operations, 1, g - 1)))

\* The master list is the result lists of the finished groups followed by
\* the list of the group in progress (a run raised by a storage call stays
\* where it was: its last group list is uploaded or not); the i-th master
\* result names the i-th image and the group that holds it; no image has
\* more than one result, and every image has one when the loops are through.
C12_MasterIsConcat ==
    /\ pc \in {"image", "op_csv"} => all_results = GroupRows(csvs) \o operation_results
    /\ pc \in {"idle", "aborted", "create_master", "op_folder", "master_csv", "done"}
         => all_results = GroupRows(csvs)
    /\ pc = "raised" =>
         all_results \in {GroupRows(csvs), GroupRows(csvs) \o operation_results}
    /\ Len(all_results) <= Len(all_images)
    /\ pc \in {"master_csv", "done"} => Len(all_results) = Len(all_images)
    /\ \A i \in 1..Len(all_results) :
         LET r == all_results[i]
         IN /\ r.image = all_images[i].name
            /\ r.operation \in 1..Len(operations)
            /\ (i - ImagesBefore(r.operation)) \in 1..Len(operations[r.operation])
            /\ operations[r.operation][i - ImagesBefore(r.operation)] = all_images[i]

\* A result is created in an image step only, one per step, and appended to
\* both lists; the results already in the master list never change within a
\* run, and a group list is only emptied for the next group.
C12_StepAppendsOnce ==
    /\ (all_results' # all_results /\ ~RunStarts) =>
          /\ pc = "image"
          /\ Len(all_results') = Len(all_results) + 1
          /\ SubSeq(all_results', 1, Len(all_results)) = all_results
          /\ operation_results' = Append(operation_results, all_results'[Len(all_results')])
    /\ (operation_results' # operation_results /\ ~RunStarts) =>
          \/ pc = "image" /\ all_results' # all_results
          \/ pc = "op_folder" /\ operation_results' = <<>>

\* C12: exactly one result record is created per image and appended to both
\* the owning group's result list and the run's master list, so that at
\* every point the master list is the concatenation of the group result
\* lists in group order then intra-group order, and the i-th master result
\* carries the name of the i-th flattened image and the index of the group
\* that contains it.
C12_OneResultPerImage == [](C12_MasterIsConcat) /\ [][C12_StepAppendsOnce]_vars

\* The second group in progress: the master list is the first group's 50
\* uploaded results followed by the one result of the second group.
C12_Witness ==
    /\ pc = "op_csv"
    /\ op_idx = 2
    /\ Len(GroupRows(csvs)) = BATCH_SIZE
    /\ Len(operation_results) = 1
    /\ Len(all_results) = BATCH_SIZE + 1
    /\ all_results[BATCH_SIZE + 1].operation = 2

\* The keys of a result dict whose value is a number.
NumberKeys(r) == DOMAIN r \cap {"operation"}

\* C13 as stated: a SUCCESS result carries its group's index and the global
\* running index, the 1-based position of its image in the flattened list.
C13_ResultCarriesGlobalIndex ==
    \A i \in 1..Len(all_results) :
        all_results[i].status = "SUCCESS" =>
            /\ all_results[i].operation = ((i - 1) \div BATCH_SIZE) + 1
            /\ \E k \in NumberKeys(all_results[i]) : all_results[i][k] = i

\* The image at position img of group op is the image at position
\* (op - 1) * BATCH_SIZE + img of the flattened list, and its result, once
\* recorded, stands at that position of the master list with the group's
\* index as its only number; of 120 images the groups have the sizes
\* 50, 50, 20 and the result of the 75th image carries the group index 2.
C13_PositionIsGlobalIdx ==
    /\ \A op \in 1..Len(operations) : \A img \in 1..Len(operations[op]) :
         LET g == GlobalIdx(op, img)
         IN /\ g \in 1..Len(all_images)
            /\ all_images[g] = operations[op][img]
            /\ g <= Len(all_results) =>
                 /\ all_results[g].operation = op
                 /\ all_results[g].image = operations[op][img].name
                 /\ \A k \in NumberKeys(all_results[g]) : all_results[g][k] = op
    /\ (Len(all_images) = 120 /\ operations # <<>>) =>
         /\ Len(operations) = 3
         /\ Len(operations[1]) = 50
         /\ Len(operations[2]) = 50
         /\ Len(operations[3]) = 20
         /\ Len(all_results) >= 75 => all_results[75].operation = 2

\* The step that processes an image sets global_idx to the position of that
\* image in the flattened list, which is the position of its result in the
\* master list; for the image at position 25 of group 2 it is 75.
C13_StepSetsGlobalIdx ==
    pc = "image" =>
        /\ global_idx' = (op_idx - 1) * BATCH_SIZE + img_idx
        /\ all_images[global_idx'] = operations[op_idx][img_idx]
        /\ Len(all_results') = global_idx'
        /\ all_results'[global_idx'].operation = op_idx
        /\ (BATCH_SIZE = 50 /\ op_idx = 2 /\ img_idx = 25) => global_idx' = 75

\* C13 as amended: a result carries the index of its group and no global
\* index; the run computes the global running index
\* (op_idx - 1) * BATCH_SIZE + img_idx next to it, and that number is the
\* 1-based position of the image in the flattened list and of its result in
\* the master list; with 120 images the groups have the sizes 50, 50, 20,
\* and for the 75th image (group 2, position 25) the global index is 75
\* while its result carries the group index 2.
C13_GlobalIdxIsPosition == [](C13_PositionIsGlobalIdx) /\ [][C13_StepSetsGlobalIdx]_vars

\* The run over 120 images right after its 75th image succeeded.
C13_Witness ==
    /\ Len(all_images) = 120
    /\ Len(operations) = 3
    /\ global_idx = 75
    /\ op_idx = 2
    /\ Len(all_results) = 75
    /\ all_results[75].status = "SUCCESS"
    /\ all_results[75].operation = 2

\* The two shapes of a result record.
SuccessShape(r) ==
    /\ r.status = "SUCCESS"
    /\ Fields \subseteq DOMAIN r
    /\ "doc_url" \in DOMAIN r
    /\ "error" \notin DOMAIN r

FailedShape(r) ==
    /\ r.status = "FAILED"
    /\ "error" \in DOMAIN r
    /\ DOMAIN r \cap (Fields \cup {"doc_url"}) = {}

\* Every record of the lists of the run, of the uploaded CSV files and of
\* the returned summary.
AllRecords ==
    {all_results[i] : i \in 1..Len(all_results)}
    \cup {operation_results[i] : i \in 1..Len(operation_results)}
    \cup UNION {{csvs[c].rows[i] : i \in 1..Len(csvs[c].rows)} : c \in 1..Len(csvs)}
    \cup UNION {{ret[k].results[i] : i \in 1..Len(ret[k].results)} : k \in 1..Len(ret)}

\* Every record has exactly one of the two shapes; a finished run of one
\* image that failed returned failed = 1 and success = 0 and uploaded a
\* master CSV of one row of the FAILED shape.
C14_ShapesHold ==
    /\ \A r \in AllRecords : SuccessShape(r) # FailedShape(r)
    /\ (pc = "done" /\ Len(all_images) = 1 /\ all_results[1].status = "FAILED") =>
          /\ ret[1].failed = 1
          /\ ret[1].success = 0
          /\ csvs[Len(csvs)].filename = "master_results.csv"
          /\ Len(csvs[Len(csvs)].rows) = 1
          /\ FailedShape(csvs[Len(csvs)].rows[1])

\* An image step in which a call failed or a response was short of a field
\* (the answer was not the good one), in which the service was down, or on
\* bytes that are no image, records FAILED; a SUCCESS record points to the
\* document created in the same step and carries the fields of its image.
C14_StepShapes ==
    pc = "image" =>
        LET r == all_results'[Len(all_results')]
            image == operations[op_idx][img_idx]
        IN /\ (faults' # faults \/ ~extractor_up \/ image.bytes # "image")
                => FailedShape(r)
           /\ r.status = "SUCCESS" =>
                /\ faults' = faults
                /\ Len(docs') = Len(docs) + 1
                /\ r.doc_url = DocUrl(Len(docs'))
                /\ \A f \in Fields : r[f] = image.name.stem

\* C14: every result record has exactly one of two shapes: a SUCCESS record
\* carries all four extracted fields and a document locator and no error
\* message; a FAILED record carries an error message and none of the four
\* fields and no locator.  An extraction response that lacks any of the four
\* fields never yields a SUCCESS record, and a run of one image whose
\* extraction raises gives failed = 1, success = 0 and one master row with an
\* error message only.
C14_TwoShapes == [](C14_ShapesHold) /\ [][C14_StepShapes]_vars

\* A finished run of one readable image whose extraction failed while the
\* service was up.
C14_Witness ==
    /\ pc = "done"
    /\ extractor_up
    /\ Len(all_images) = 1
    /\ all_images[1].bytes = "image"
    /\ all_results[1].status = "FAILED"
    /\ all_results[1].error = "extraction failed"
    /\ ret[1].failed = 1
    /\ docs = <<>>

\* The value num / den that is handed to a progress bar lies in 0..1, and
\* is 1.
FractionInRange(num, den) == den > 0 /\ 0 <= num /\ num <= den
FractionIsOne(num, den) == den > 0 /\ num = den

\* The counter is the length of the master list and never passes the number
\* of images; a finished run has counted every image.
C15_CounterIsLength ==
    /\ global_idx = Len(all_results)
    /\ global_idx <= Len(all_images)
    /\ pc \in {"master_csv", "done"} => FractionIsOne(global_idx, Len(all_images))

\* The progress update of an image step: it follows the two appends, with
\* global_idx the number of results in the master list, at least 1; both
\* fractions lie in 0..1, and the overall one is 1 exactly at the last image
\* of the last group (the per-group one at the last image of each group).
C15_StepProgress ==
    pc = "image" =>
        /\ global_idx' = Len(all_results')
        /\ global_idx' = Len(all_results) + 1
        /\ global_idx' >= 1
        /\ FractionInRange(global_idx', Len(all_images))
        /\ FractionInRange(img_idx, Len(operations[op_idx]))
        /\ img_idx >= 1
        /\ FractionIsOne(global_idx', Len(all_images))
             <=> (op_idx = Len(operations) /\ img_idx = Len(operations[op_idx]))
        /\ FractionIsOne(img_idx, Len(operations[op_idx])) <=> pc' = "op_csv"

\* C15: at every progress update the running counter global_idx equals the
\* number of results appended to the master list so far and satisfies
\* 1 <= global_idx <= len(all_images), so the overall progress fraction
\* global_idx / len(all_images) and the per-group fraction
\* img_idx / len(operation_images) never exceed 1, and the overall fraction
\* equals exactly 1 at the last image of the last group.
C15_ProgressBounded == [](C15_CounterIsLength) /\ [][C15_StepProgress]_vars

\* The last image of a run of two full groups has just been processed: the
\* counter stands at 100 of 100.
C15_Witness ==
    /\ pc = "op_csv"
    /\ Len(all_images) = 2 * BATCH_SIZE
    /\ op_idx = 2
    /\ img_idx = BATCH_SIZE
    /\ global_idx = 2 * BATCH_SIZE
    /\ Len(all_results) = 2 * BATCH_SIZE

====
